---- MODULE Spec2Model ----
(***************************************************************************)
(* Model of the block processor of the sync service                        *)
(* (beacon_node/network/src/sync/block_processor.rs).                       *)
(*                                                                         *)
(* Every call of spawn_block_processor starts one thread (a "worker").     *)
(* The worker upgrades its Weak<BeaconChain>, hands the blocks to          *)
(* process_chain_segment, runs fork choice when roots were imported and    *)
(* reports to the sync manager through an unbounded mpsc channel.  Each    *)
(* interaction with the chain or with the channel is one step, so that     *)
(* the steps of different workers, the owner dropping the chain and the    *)
(* sync manager dropping the receiver interleave freely.                   *)
(*                                                                         *)
(* The second part models PubsubMessage::decode and PubsubMessage::encode  *)
(* (beacon_node/eth2-libp2p/src/pubsub.rs) as operators, applied to inputs *)
(* drawn in InitCodec.                                                     *)
(***************************************************************************)
EXTENDS Integers, Sequences, FiniteSets, TLC

\* ------------------------------------------------------------------ bounds
NumWorkers == 2      \* threads spawned in one behaviour
MaxId == 2           \* batch ids and peer ids are 1..MaxId
NumBlocks == 3       \* distinct blocks
MaxLen == 3          \* longest downloaded_blocks
MaxSlot == 2         \* largest slot in a FutureSlot error
MaxTopics == 2       \* longest topic list of one gossip message
MaxSubnet == 1       \* subnet ids are 0..MaxSubnet
NumUnknown == 2      \* topic strings that are no gossip topic
MaxByte == 1         \* byte values are 0..MaxByte
MaxPayload == 2      \* longest payload handed to decode

\* --------------------------------------------------------------- constants
\* crate::router::processor::FUTURE_SLOT_TOLERANCE, imported at line 1
FUTURE_SLOT_TOLERANCE == 1

Workers == 1..NumWorkers
Ids == 1..MaxId
Blocks == 1..NumBlocks

\* Vec<SignedBeaconBlock>: all sequences of blocks of length 0..MaxLen
BlockSeqs == UNION {[1..n -> Blocks] : n \in 0..MaxLen}

VARIABLES
    owner,              \* the node still holds its Arc<BeaconChain>
    rx_open,            \* the receiver half of sync_send is alive
    chan,               \* messages queued in the channel, oldest first
    pc,                 \* position of each worker thread
    process_id,         \* argument process_id
    downloaded_blocks,  \* argument downloaded_blocks
    chain,              \* the worker's handle: "Weak", "Arc", "None", "Dropped"
    blocks,             \* the Vec collected at line 106
    ret,                \* what process_chain_segment returned
    result,             \* what process_blocks returned
    trace,              \* calls made by the worker on chain and channel
    logs,               \* messages logged by the worker
    codec               \* one use of the pubsub codec: inputs and results

vars == <<owner, rx_open, chan, pc, process_id, downloaded_blocks, chain,
          blocks, ret, result, trace, logs, codec>>

\* ------------------------------------------------------------------ values
RangeBatchId(id) == [kind |-> "RangeBatchId", id |-> id]
ParentLookup(id) == [kind |-> "ParentLookup", id |-> id]
NoProcessId == [kind |-> "None", id |-> 0]

ProcessId == {RangeBatchId(i) : i \in Ids} \cup {ParentLookup(i) : i \in Ids}

\* BatchProcessResult
Success == "Success"
Failed == "Failed"

\* SyncMessage, the two variants the block processor produces
BatchProcessed(batch_id, blks, res) ==
    [type |-> "BatchProcessed", id |-> batch_id, downloaded_blocks |-> blks,
     result |-> res]
ParentLookupFailed(peer_id) ==
    [type |-> "ParentLookupFailed", id |-> peer_id, downloaded_blocks |-> <<>>,
     result |-> "None"]

\* Result<Vec<Hash256>, BlockError>; roots is the length of the Vec
RetOk(n) == [tag |-> "Ok", roots |-> n, present_slot |-> 0, block_slot |-> 0]
RetErr(e) == [tag |-> e, roots |-> 0, present_slot |-> 0, block_slot |-> 0]
RetFutureSlot(p, b) ==
    [tag |-> "FutureSlot", roots |-> 0, present_slot |-> p, block_slot |-> b]
NoRet == [tag |-> "None", roots |-> 0, present_slot |-> 0, block_slot |-> 0]

\* BlockError variants without payload that process_blocks names, and two of
\* those it leaves to the catch-all arm
NamedErrors == {"ParentUnknown", "BlockIsAlreadyKnown",
                "WouldRevertFinalizedSlot", "GenesisBlock", "BeaconChainError"}
OtherErrors == {"InvalidSignature", "StateRootMismatch"}

\* Every return value process_chain_segment can produce for a segment
process_chain_segment(blks) ==
    {RetOk(n) : n \in 0..Len(blks)}
    \cup {RetErr(e) : e \in NamedErrors \cup OtherErrors}
    \cup UNION {{RetFutureSlot(p, b) : b \in (p + 1)..MaxSlot} :
                   p \in 0..MaxSlot}

\* Result<(), String>
Ok == [tag |-> "Ok", reason |-> ""]
Err(s) == [tag |-> "Err", reason |-> s]
NoResult == [tag |-> "None", reason |-> ""]

\* ---------------------------------------------------------- pure functions
\* Iterator::rev over a slice
RECURSIVE rev(_)
rev(s) == IF s = <<>> THEN <<>>
          ELSE <<s[Len(s)]>> \o rev(SubSeq(s, 1, Len(s) - 1))

\* Faulty variants of block_iter: never reversing, always reversing
block_iter_forward(pid, blks) == blks
block_iter_reversed(pid, blks) == rev(blks)

\* The iterator handed to process_blocks: iter() for a range batch,
\* iter().rev() for a parent lookup
block_iter(pid, blks) ==
    IF pid.kind = "ParentLookup" THEN rev(blks) ELSE blks

\* Faulty variants of runs_fork_choice: never, without the is_empty test,
\* also in the WouldRevertFinalizedSlot arm
runs_fork_choice_never(r) == FALSE
runs_fork_choice_any_ok(r) == r.tag = "Ok"
runs_fork_choice_on_finalized(r) ==
    \/ r.tag = "Ok" /\ r.roots > 0
    \/ r.tag = "WouldRevertFinalizedSlot"

\* The match on the result of process_chain_segment, in three parts.
\* Whether the arm runs fork choice: only Ok with a non-empty list of roots
runs_fork_choice(r) == r.tag = "Ok" /\ r.roots > 0

\* Faulty variants of import_result: the catch-all arm falls through to
\* Ok(()), the BlockIsAlreadyKnown arm returns an error
import_result_other_ok(r) ==
    CASE r.tag = "Ok" -> Ok
      [] r.tag = "ParentUnknown" -> Err("Block has an unknown parent")
      [] r.tag = "BlockIsAlreadyKnown" -> Ok
      [] r.tag = "FutureSlot" ->
           Err("Block with slot is higher than the current slot")
      [] r.tag = "WouldRevertFinalizedSlot" -> Ok
      [] r.tag = "GenesisBlock" -> Ok
      [] r.tag = "BeaconChainError" ->
           Err("Internal error whilst processing block")
      [] OTHER -> Ok
import_result_known_fails(r) ==
    CASE r.tag = "Ok" -> Ok
      [] r.tag = "ParentUnknown" -> Err("Block has an unknown parent")
      [] r.tag = "BlockIsAlreadyKnown" -> Err("Block is already known")
      [] r.tag = "FutureSlot" ->
           Err("Block with slot is higher than the current slot")
      [] r.tag = "WouldRevertFinalizedSlot" -> Ok
      [] r.tag = "GenesisBlock" -> Ok
      [] r.tag = "BeaconChainError" ->
           Err("Internal error whilst processing block")
      [] OTHER -> Err("Peer sent invalid block")

\* What process_blocks returns when the arm does not run fork choice
import_result(r) ==
    CASE r.tag = "Ok" -> Ok
      [] r.tag = "ParentUnknown" -> Err("Block has an unknown parent")
      [] r.tag = "BlockIsAlreadyKnown" -> Ok
      [] r.tag = "FutureSlot" ->
           Err("Block with slot is higher than the current slot")
      [] r.tag = "WouldRevertFinalizedSlot" -> Ok
      [] r.tag = "GenesisBlock" -> Ok
      [] r.tag = "BeaconChainError" ->
           Err("Internal error whilst processing block")
      [] OTHER -> Err("Peer sent invalid block")

\* What the arm logs
import_log(r) ==
    CASE r.tag = "Ok" ->
           IF r.roots = 0 THEN "All blocks already known"
           ELSE "Imported blocks from network"
      [] r.tag = "ParentUnknown" -> "Parent block is unknown"
      [] r.tag = "BlockIsAlreadyKnown" -> "Unknown handling of block error"
      [] r.tag = "FutureSlot" ->
           IF r.present_slot + FUTURE_SLOT_TOLERANCE >= r.block_slot
           THEN "Block is ahead of our slot clock"
           ELSE "Block is slightly ahead of our slot clock, ignoring."
      [] r.tag = "WouldRevertFinalizedSlot" ->
           "Finalized or earlier block processed"
      [] r.tag = "GenesisBlock" -> "Genesis block was processed"
      [] r.tag = "BeaconChainError" -> "BlockProcessingFailure"
      [] OTHER -> "Invalid block received"

\* Faulty variant of fork_choice_outcome: the error reaches the caller
fork_choice_outcome_propagated(fc_ret) ==
    [result |-> IF fc_ret = "Ok" THEN Ok ELSE Err("Fork choice failed"),
     log |-> IF fc_ret = "Ok" THEN "Fork choice success"
             ELSE "Fork choice failed"]

\* run_fork_choice logs the outcome of fork_choice and returns ();
\* process_blocks then falls through to Ok(())
fork_choice_outcome(fc_ret) ==
    [result |-> Ok,
     log |-> IF fc_ret = "Ok" THEN "Fork choice success"
             ELSE "Fork choice failed"]

\* BatchProcessResult of a range batch
batch_result(res) == IF res.tag = "Ok" THEN Success ELSE Failed

\* Faulty variants of report_msgs: a failed range batch reports nothing,
\* a parent lookup reports failure whatever the result
report_msgs_failure_dropped(pid, blks, res) ==
    IF pid.kind = "RangeBatchId"
    THEN IF res.tag = "Ok" THEN <<BatchProcessed(pid.id, blks, Success)>>
         ELSE <<>>
    ELSE IF res.tag = "Err" THEN <<ParentLookupFailed(pid.id)>> ELSE <<>>
report_msgs_parent_always(pid, blks, res) ==
    IF pid.kind = "RangeBatchId"
    THEN <<BatchProcessed(pid.id, blks, batch_result(res))>>
    ELSE <<ParentLookupFailed(pid.id)>>

\* The messages a worker hands to try_send once process_blocks has returned
report_msgs(pid, blks, res) ==
    IF pid.kind = "RangeBatchId"
    THEN <<BatchProcessed(pid.id, blks, batch_result(res))>>
    ELSE IF res.tag = "Err" THEN <<ParentLookupFailed(pid.id)>> ELSE <<>>

\* What the worker logs around the report
report_logs(pid, res, sent) ==
    IF pid.kind = "RangeBatchId"
    THEN <<IF res.tag = "Ok" THEN "Batch processed"
           ELSE "Batch processing failed">>
         \o (IF sent THEN <<>>
             ELSE <<"Block processor could not inform range sync result. Likely shutting down.">>)
    ELSE IF res.tag = "Err"
         THEN <<"Parent lookup failed">>
              \o (IF sent THEN <<>>
                  ELSE <<"Block processor could not inform parent lookup result. Likely shutting down.">>)
         ELSE <<"Parent lookup processed successfully">>

\* UnboundedSender::try_send: queues the message unless the receiver is gone
try_send(q, open, msg) == IF open THEN Append(q, msg) ELSE q

\* Weak::upgrade succeeds while any Arc to the chain exists
strong_count == (IF owner THEN 1 ELSE 0)
                + Cardinality({w \in Workers : chain[w] = "Arc"})
upgrade == IF strong_count > 0 THEN "Arc" ELSE "None"

\* trace entries
Call(ev, arg, r) == [ev |-> ev, arg |-> arg, ret |-> r]

\* ------------------------------------------------------------ pubsub codec
\* Topic strings.  name and index stand for the text of the string: a fixed
\* name per kind, the subnet index inside the committee topic, and strings
\* that are no gossip topic.
TopicString(name, index) == [name |-> name, index |-> index]
FixedTopicNames == {"beacon_block", "beacon_aggregate_and_proof",
                    "voluntary_exit", "proposer_slashing", "attester_slashing"}
KnownTopics ==
    {TopicString(n, 0) : n \in FixedTopicNames}
    \cup {TopicString("committee_index", i) : i \in 0..MaxSubnet}
UnknownTopics == {TopicString("unknown", k) : k \in 1..NumUnknown}
Topics == KnownTopics \cup UnknownTopics
TopicSeqs == UNION {[1..n -> Topics] : n \in 0..MaxTopics}

\* GossipTopic::decode: the encoding, kind and subnet of a topic string, or an
\* error for a string that is no gossip topic
GossipTopic_decode(topic) ==
    CASE topic.name = "beacon_block" ->
           [tag |-> "Ok", encoding |-> "SSZ", kind |-> "BeaconBlock",
            subnet_id |-> 0]
      [] topic.name = "beacon_aggregate_and_proof" ->
           [tag |-> "Ok", encoding |-> "SSZ",
            kind |-> "BeaconAggregateAndProof", subnet_id |-> 0]
      [] topic.name = "committee_index" ->
           [tag |-> "Ok", encoding |-> "SSZ", kind |-> "CommitteeIndex",
            subnet_id |-> topic.index]
      [] topic.name = "voluntary_exit" ->
           [tag |-> "Ok", encoding |-> "SSZ", kind |-> "VoluntaryExit",
            subnet_id |-> 0]
      [] topic.name = "proposer_slashing" ->
           [tag |-> "Ok", encoding |-> "SSZ", kind |-> "ProposerSlashing",
            subnet_id |-> 0]
      [] topic.name = "attester_slashing" ->
           [tag |-> "Ok", encoding |-> "SSZ", kind |-> "AttesterSlashing",
            subnet_id |-> 0]
      [] OTHER ->
           [tag |-> "Err", encoding |-> "", kind |-> "", subnet_id |-> 0]

\* Consensus objects and their SSZ form.  An object of a type is a number
\* that fills SszLen(type) bytes; its serialization is that number in
\* little-endian bytes, and bytes of any other length do not deserialize.
ObjectTypes == {"BeaconBlock", "AggregateAndProof", "Attestation",
                "VoluntaryExit", "ProposerSlashing", "AttesterSlashing"}
Base == MaxByte + 1
SszLen(type) ==
    CASE type \in {"BeaconBlock", "AggregateAndProof", "AttesterSlashing"} -> 2
      [] OTHER -> 1
Object(type, val) == [type |-> type, val |-> val]
NoObject == [type |-> "None", val |-> 0]
Objects(type) == {Object(type, v) : v \in 0..(Base ^ SszLen(type) - 1)}

Payloads == UNION {[1..n -> 0..MaxByte] : n \in 0..MaxPayload}

\* ssz::Encode::as_ssz_bytes
as_ssz_bytes(obj) ==
    [i \in 1..SszLen(obj.type) |-> (obj.val \div (Base ^ (i - 1))) % Base]

RECURSIVE le_value(_)
le_value(bytes) ==
    IF bytes = <<>> THEN 0 ELSE Head(bytes) + Base * le_value(Tail(bytes))

\* ssz::Decode::from_ssz_bytes
from_ssz_bytes(type, bytes) ==
    IF Len(bytes) = SszLen(type)
    THEN [tag |-> "Ok", obj |-> Object(type, le_value(bytes))]
    ELSE [tag |-> "Err", obj |-> NoObject]

\* PubsubMessage.  subnet is the SubnetId boxed with the attestation in the
\* Attestation variant; the other variants have none and keep it at 0.
PubsubMessage(variant, subnet, obj) ==
    [variant |-> variant, subnet |-> subnet, obj |-> obj]
NoMessage == PubsubMessage("None", 0, NoObject)

PubsubMessages ==
    {PubsubMessage("BeaconBlock", 0, o) : o \in Objects("BeaconBlock")}
    \cup {PubsubMessage("AggregateAndProofAttestation", 0, o) :
             o \in Objects("AggregateAndProof")}
    \cup {PubsubMessage("Attestation", n, o) :
             n \in 0..MaxSubnet, o \in Objects("Attestation")}
    \cup {PubsubMessage("VoluntaryExit", 0, o) : o \in Objects("VoluntaryExit")}
    \cup {PubsubMessage("ProposerSlashing", 0, o) :
             o \in Objects("ProposerSlashing")}
    \cup {PubsubMessage("AttesterSlashing", 0, o) :
             o \in Objects("AttesterSlashing")}

\* Result<PubsubMessage, String> of decode, with what decode did on the way:
\* consulted is the number of topics it resolved, attempts the types it
\* tried to deserialize the payload as
DecodeOk(msg, consulted, attempts) ==
    [tag |-> "Ok", msg |-> msg, err |-> "", unknown |-> <<>>,
     consulted |-> consulted, attempts |-> attempts]
DecodeError(consulted, attempts) ==
    [tag |-> "Err", msg |-> NoMessage, err |-> "DecodeError",
     unknown |-> <<>>, consulted |-> consulted, attempts |-> attempts]
UnknownTopicsError(unknown, consulted) ==
    [tag |-> "Err", msg |-> NoMessage, err |-> "Unknown gossipsub topics",
     unknown |-> unknown, consulted |-> consulted, attempts |-> <<>>]
NoDecode ==
    [tag |-> "None", msg |-> NoMessage, err |-> "", unknown |-> <<>>,
     consulted |-> 0, attempts |-> <<>>]

\* The type each arm of the match on gossip_topic.kind() deserializes
ssz_type(kind) ==
    CASE kind = "BeaconAggregateAndProof" -> "AggregateAndProof"
      [] kind = "CommitteeIndex" -> "Attestation"
      [] kind = "BeaconBlock" -> "BeaconBlock"
      [] kind = "VoluntaryExit" -> "VoluntaryExit"
      [] kind = "ProposerSlashing" -> "ProposerSlashing"
      [] kind = "AttesterSlashing" -> "AttesterSlashing"

\* Faulty variant of wrap: the attestation loses the subnet of its topic
wrap_subnet_dropped(gossip_topic, obj) ==
    CASE gossip_topic.kind = "BeaconAggregateAndProof" ->
           PubsubMessage("AggregateAndProofAttestation", 0, obj)
      [] gossip_topic.kind = "CommitteeIndex" ->
           PubsubMessage("Attestation", 0, obj)
      [] gossip_topic.kind = "BeaconBlock" ->
           PubsubMessage("BeaconBlock", 0, obj)
      [] gossip_topic.kind = "VoluntaryExit" ->
           PubsubMessage("VoluntaryExit", 0, obj)
      [] gossip_topic.kind = "ProposerSlashing" ->
           PubsubMessage("ProposerSlashing", 0, obj)
      [] gossip_topic.kind = "AttesterSlashing" ->
           PubsubMessage("AttesterSlashing", 0, obj)

\* The message each arm returns for the object it deserialized
wrap(gossip_topic, obj) ==
    CASE gossip_topic.kind = "BeaconAggregateAndProof" ->
           PubsubMessage("AggregateAndProofAttestation", 0, obj)
      [] gossip_topic.kind = "CommitteeIndex" ->
           PubsubMessage("Attestation", gossip_topic.subnet_id, obj)
      [] gossip_topic.kind = "BeaconBlock" ->
           PubsubMessage("BeaconBlock", 0, obj)
      [] gossip_topic.kind = "VoluntaryExit" ->
           PubsubMessage("VoluntaryExit", 0, obj)
      [] gossip_topic.kind = "ProposerSlashing" ->
           PubsubMessage("ProposerSlashing", 0, obj)
      [] gossip_topic.kind = "AttesterSlashing" ->
           PubsubMessage("AttesterSlashing", 0, obj)

\* Faulty variant of push_unknown: a topic is listed once only
push_unknown_once(unknown, topic) ==
    IF \E i \in DOMAIN unknown : unknown[i] = topic THEN unknown
    ELSE Append(unknown, topic)

\* unknown_topics.push(topic)
push_unknown(unknown, topic) == Append(unknown, topic)

\* Faulty variant of decode_from: a payload that does not deserialize under
\* one topic is tried under the next
RECURSIVE decode_from_fallthrough(_, _, _, _)
decode_from_fallthrough(topics, data, i, unknown_topics) ==
    IF i > Len(topics)
    THEN UnknownTopicsError(unknown_topics, Len(topics))
    ELSE LET gossip_topic == GossipTopic_decode(topics[i])
         IN IF gossip_topic.tag = "Err"
            THEN decode_from_fallthrough(topics, data, i + 1,
                                         push_unknown(unknown_topics, topics[i]))
            ELSE LET ty == ssz_type(gossip_topic.kind)
                     d == from_ssz_bytes(ty, data)
                 IN IF d.tag = "Err"
                    THEN decode_from_fallthrough(topics, data, i + 1,
                                                 unknown_topics)
                    ELSE DecodeOk(wrap(gossip_topic, d.obj), i, <<ty>>)

\* The loop of decode from the i-th topic on: an unresolved topic is pushed
\* and skipped; the first resolved one decides, with ? returning the error
RECURSIVE decode_from(_, _, _, _)
decode_from(topics, data, i, unknown_topics) ==
    IF i > Len(topics)
    THEN UnknownTopicsError(unknown_topics, Len(topics))
    ELSE LET gossip_topic == GossipTopic_decode(topics[i])
         IN IF gossip_topic.tag = "Err"
            THEN decode_from(topics, data, i + 1,
                             push_unknown(unknown_topics, topics[i]))
            ELSE LET ty == ssz_type(gossip_topic.kind)
                     d == from_ssz_bytes(ty, data)
                 IN IF d.tag = "Err"
                    THEN DecodeError(i, <<ty>>)
                    ELSE DecodeOk(wrap(gossip_topic, d.obj), i, <<ty>>)

\* Faulty variant of decode: the topics are walked from the last one
decode_last_first(topics, data) == decode_from(rev(topics), data, 1, <<>>)

\* PubsubMessage::decode
decode(topics, data) == decode_from(topics, data, 1, <<>>)

\* Vec<u8> returned by encode.  The match on self has no arm for
\* AggregateAndProofAttestation: NoArm stands for that.
Bytes(b) == [tag |-> "Bytes", bytes |-> b]
NoArm == [tag |-> "NoArm", bytes |-> <<>>]
NoEncode == [tag |-> "None", bytes |-> <<>>]

\* PubsubMessage::encode
encode(msg, encoding) ==
    CASE msg.variant \in {"BeaconBlock", "VoluntaryExit", "ProposerSlashing",
                          "AttesterSlashing"} -> Bytes(as_ssz_bytes(msg.obj))
      [] msg.variant = "Attestation" -> Bytes(<<>>)
      [] OTHER -> NoArm

\* The topic a message is published on
topic_for(msg) ==
    CASE msg.variant = "BeaconBlock" -> TopicString("beacon_block", 0)
      [] msg.variant = "AggregateAndProofAttestation" ->
           TopicString("beacon_aggregate_and_proof", 0)
      [] msg.variant = "Attestation" ->
           TopicString("committee_index", msg.subnet)
      [] msg.variant = "VoluntaryExit" -> TopicString("voluntary_exit", 0)
      [] msg.variant = "ProposerSlashing" ->
           TopicString("proposer_slashing", 0)
      [] msg.variant = "AttesterSlashing" ->
           TopicString("attester_slashing", 0)

\* One use of the codec
CodecState(at, topics, data, msg, enc, out) ==
    [pc |-> at, topics |-> topics, data |-> data, msg |-> msg, enc |-> enc,
     out |-> out]
CodecIdle == CodecState("idle", <<>>, <<>>, NoMessage, NoEncode, NoDecode)

\* ------------------------------------------------------------------- state
Init ==
    /\ codec = CodecIdle
    /\ owner = TRUE
    /\ rx_open = TRUE
    /\ chan = <<>>
    /\ pc = [w \in Workers |-> "idle"]
    /\ process_id = [w \in Workers |-> NoProcessId]
    /\ downloaded_blocks = [w \in Workers |-> <<>>]
    /\ chain = [w \in Workers |-> "Weak"]
    /\ blocks = [w \in Workers |-> <<>>]
    /\ ret = [w \in Workers |-> NoRet]
    /\ result = [w \in Workers |-> NoResult]
    /\ trace = [w \in Workers |-> <<>>]
    /\ logs = [w \in Workers |-> <<>>]

\* ----------------------------------------------------------------- actions
\* spawn_block_processor: std::thread::spawn moves the arguments to the thread
spawn_block_processor(w, pid, blks) ==
    /\ pc[w] = "idle"
    /\ pc' = [pc EXCEPT ![w] = "spawned"]
    /\ process_id' = [process_id EXCEPT ![w] = pid]
    /\ downloaded_blocks' = [downloaded_blocks EXCEPT ![w] = blks]
    /\ UNCHANGED <<owner, rx_open, chan, chain, blocks, ret, result, trace,
                   logs>>
    /\ UNCHANGED codec

\* The thread starts: logs, enters process_blocks and upgrades the handle.
\* With a live chain it collects the iterator into a Vec; otherwise
\* process_blocks returns Ok(()) at once.
process_blocks_upgrade(w) ==
    /\ pc[w] = "spawned"
    /\ logs' = [logs EXCEPT ![w] =
                 Append(@, IF process_id[w].kind = "RangeBatchId"
                           THEN "Processing batch"
                           ELSE "Processing parent lookup")]
    /\ chain' = [chain EXCEPT ![w] = upgrade]
    /\ IF upgrade = "Arc"
       THEN /\ blocks' = [blocks EXCEPT ![w] =
                           block_iter(process_id[w], downloaded_blocks[w])]
            /\ pc' = [pc EXCEPT ![w] = "import"]
            /\ UNCHANGED result
       ELSE /\ result' = [result EXCEPT ![w] = Ok]
            /\ pc' = [pc EXCEPT ![w] = "report"]
            /\ UNCHANGED blocks
    /\ UNCHANGED <<owner, rx_open, chan, process_id, downloaded_blocks, ret,
                   trace>>
    /\ UNCHANGED codec

\* Faulty variant of process_blocks_import: the import is called off when the
\* node has dropped its Arc in the meantime
process_blocks_import_rechecked(w, rets) ==
    /\ pc[w] = "import"
    /\ IF owner
       THEN \E r \in process_chain_segment(blocks[w]) \cap rets :
              /\ ret' = [ret EXCEPT ![w] = r]
              /\ trace' = [trace EXCEPT ![w] =
                            Append(@, Call("process_chain_segment", blocks[w],
                                           r.tag))]
              /\ logs' = [logs EXCEPT ![w] = Append(@, import_log(r))]
              /\ IF runs_fork_choice(r)
                 THEN /\ pc' = [pc EXCEPT ![w] = "fork_choice"]
                      /\ UNCHANGED <<result, chain>>
                 ELSE /\ result' = [result EXCEPT ![w] = import_result(r)]
                      /\ chain' = [chain EXCEPT ![w] = "Dropped"]
                      /\ pc' = [pc EXCEPT ![w] = "report"]
       ELSE /\ result' = [result EXCEPT ![w] = Ok]
            /\ chain' = [chain EXCEPT ![w] = "Dropped"]
            /\ pc' = [pc EXCEPT ![w] = "report"]
            /\ UNCHANGED <<ret, trace, logs>>
    /\ UNCHANGED <<owner, rx_open, chan, process_id, downloaded_blocks, blocks>>
    /\ UNCHANGED codec

\* chain.process_chain_segment(blocks) and the match on what it returns.
\* rets restricts the return values of the dependency.
process_blocks_import(w, rets) ==
    /\ pc[w] = "import"
    /\ \E r \in process_chain_segment(blocks[w]) \cap rets :
        /\ ret' = [ret EXCEPT ![w] = r]
        /\ trace' = [trace EXCEPT ![w] =
                      Append(@, Call("process_chain_segment", blocks[w], r.tag))]
        /\ logs' = [logs EXCEPT ![w] = Append(@, import_log(r))]
        /\ IF runs_fork_choice(r)
           THEN /\ pc' = [pc EXCEPT ![w] = "fork_choice"]
                /\ UNCHANGED <<result, chain>>
           ELSE /\ result' = [result EXCEPT ![w] = import_result(r)]
                /\ chain' = [chain EXCEPT ![w] = "Dropped"]
                /\ pc' = [pc EXCEPT ![w] = "report"]
    /\ UNCHANGED <<owner, rx_open, chan, process_id, downloaded_blocks, blocks>>
    /\ UNCHANGED codec

\* run_fork_choice: chain.fork_choice() succeeds or fails
run_fork_choice(w) ==
    /\ pc[w] = "fork_choice"
    /\ \E fc_ret \in {"Ok", "Err"} :
        /\ trace' = [trace EXCEPT ![w] =
                      Append(@, Call("fork_choice", <<>>, fc_ret))]
        /\ logs' = [logs EXCEPT ![w] =
                     Append(@, fork_choice_outcome(fc_ret).log)]
        /\ result' = [result EXCEPT ![w] = fork_choice_outcome(fc_ret).result]
    /\ chain' = [chain EXCEPT ![w] = "Dropped"]
    /\ pc' = [pc EXCEPT ![w] = "report"]
    /\ UNCHANGED <<owner, rx_open, chan, process_id, downloaded_blocks, blocks,
                   ret>>
    /\ UNCHANGED codec

\* Faulty variant of report: the send waits for a receiver
report_blocking(w) ==
    /\ pc[w] = "report"
    /\ LET msgs == report_msgs(process_id[w], downloaded_blocks[w], result[w])
       IN /\ IF msgs = <<>>
             THEN UNCHANGED <<chan, trace>>
             ELSE /\ rx_open
                  /\ chan' = Append(chan, msgs[1])
                  /\ trace' = [trace EXCEPT ![w] =
                                Append(@, Call("try_send", msgs[1], "Ok"))]
          /\ logs' = [logs EXCEPT ![w] =
                       @ \o report_logs(process_id[w], result[w], TRUE)]
    /\ pc' = [pc EXCEPT ![w] = "done"]
    /\ UNCHANGED <<owner, rx_open, process_id, downloaded_blocks, chain, blocks,
                   ret, result>>
    /\ UNCHANGED codec

\* Back in the thread closure: build the message, try_send it, end the thread
report(w) ==
    /\ pc[w] = "report"
    /\ LET msgs == report_msgs(process_id[w], downloaded_blocks[w], result[w])
       IN /\ IF msgs = <<>>
             THEN UNCHANGED <<chan, trace>>
             ELSE /\ chan' = try_send(chan, rx_open, msgs[1])
                  /\ trace' = [trace EXCEPT ![w] =
                                Append(@, Call("try_send", msgs[1],
                                               IF rx_open THEN "Ok" ELSE "Err"))]
          /\ logs' = [logs EXCEPT ![w] =
                       @ \o report_logs(process_id[w], result[w], rx_open)]
    /\ pc' = [pc EXCEPT ![w] = "done"]
    /\ UNCHANGED <<owner, rx_open, process_id, downloaded_blocks, chain, blocks,
                   ret, result>>
    /\ UNCHANGED codec

\* The node drops its Arc<BeaconChain>
drop_chain ==
    /\ owner
    /\ owner' = FALSE
    /\ UNCHANGED <<rx_open, chan, pc, process_id, downloaded_blocks, chain,
                   blocks, ret, result, trace, logs>>
    /\ UNCHANGED codec

\* The sync manager drops the receiver
drop_receiver ==
    /\ rx_open
    /\ rx_open' = FALSE
    /\ UNCHANGED <<owner, chan, pc, process_id, downloaded_blocks, chain,
                   blocks, ret, result, trace, logs>>
    /\ UNCHANGED codec

\* ---------------------------------------------------------- specifications
\* Every return value of process_chain_segment, for any segment
AllRets == process_chain_segment([i \in 1..MaxLen |-> 1])

WorkerStep(w, rets) ==
    \/ process_blocks_upgrade(w)
    \/ process_blocks_import(w, rets)
    \/ run_fork_choice(w)
    \/ report(w)

\* One request at a time, any process id, any blocks, any import outcome
Next ==
    \/ /\ pc[1] = "idle"
       /\ \E pid \in ProcessId, blks \in BlockSeqs :
             spawn_block_processor(1, pid, blks)
    \/ WorkerStep(1, AllRets)
    \/ drop_chain
    \/ drop_receiver

Spec == Init /\ [][Next]_vars

\* NumWorkers requests in flight at once.  The sync manager numbers its
\* requests, here request w has id w; every request carries the same two
\* blocks and the chain answers with one of four representative results.
ConcProcessId(w) == {RangeBatchId(w), ParentLookup(w)}
ConcBlocks == <<1, 2>>
ConcRets == {RetOk(0), RetOk(1), RetErr("ParentUnknown"),
             RetErr("BlockIsAlreadyKnown")}

NextConc ==
    \/ \E w \in Workers :
          /\ pc[w] = "idle"
          /\ \E pid \in ConcProcessId(w) :
                spawn_block_processor(w, pid, ConcBlocks)
    \/ \E w \in Workers : WorkerStep(w, ConcRets)
    \/ drop_chain
    \/ drop_receiver

SpecConc == Init /\ [][NextConc]_vars

\* The codec.  A use is either decode on some topics and some payload, or a
\* message published under topics of which its own is the first gossip topic:
\* encode, then decode of the encoded bytes at the receiving end.
pvars == <<owner, rx_open, chan, pc, process_id, downloaded_blocks, chain,
           blocks, ret, result, trace, logs>>

\* the topic lists a message m is published under: its own topic is the first
\* gossip topic of the list
PublishTopics(m) ==
    {ts \in TopicSeqs :
        \E i \in DOMAIN ts :
            /\ ts[i] = topic_for(m)
            /\ \A j \in 1..(i - 1) : GossipTopic_decode(ts[j]).tag = "Err"}

InitCodec ==
    /\ \/ \E ts \in TopicSeqs, d \in Payloads :
             codec = CodecState("decode", ts, d, NoMessage, NoEncode, NoDecode)
       \/ \E m \in PubsubMessages : \E ts \in PublishTopics(m) :
             codec = CodecState("encode", ts, <<>>, m, NoEncode, NoDecode)
    /\ owner = TRUE
    /\ rx_open = TRUE
    /\ chan = <<>>
    /\ pc = [w \in Workers |-> "idle"]
    /\ process_id = [w \in Workers |-> NoProcessId]
    /\ downloaded_blocks = [w \in Workers |-> <<>>]
    /\ chain = [w \in Workers |-> "Weak"]
    /\ blocks = [w \in Workers |-> <<>>]
    /\ ret = [w \in Workers |-> NoRet]
    /\ result = [w \in Workers |-> NoResult]
    /\ trace = [w \in Workers |-> <<>>]
    /\ logs = [w \in Workers |-> <<>>]

codec_decode ==
    /\ codec.pc = "decode"
    /\ codec' = [codec EXCEPT !.pc = "decoded",
                              !.out = decode(codec.topics, codec.data)]
    /\ UNCHANGED pvars

codec_encode ==
    /\ codec.pc = "encode"
    /\ codec' = [codec EXCEPT !.pc = "encoded",
                              !.enc = encode(codec.msg, "SSZ")]
    /\ UNCHANGED pvars

codec_deliver ==
    /\ codec.pc = "encoded"
    /\ codec.enc.tag = "Bytes"
    /\ codec' = [codec EXCEPT !.pc = "delivered",
                              !.data = codec.enc.bytes,
                              !.out = decode(codec.topics, codec.enc.bytes)]
    /\ UNCHANGED pvars

NextCodec == codec_decode \/ codec_encode \/ codec_deliver

SpecCodec == InitCodec /\ [][NextCodec]_vars

\* ------------------------------------------------------------ observations
\* Positions in the trace of worker w of its calls of ev
Idx(w, ev) == {i \in DOMAIN trace[w] : trace[w][i].ev = ev}
NumCalls(w, ev) == Cardinality(Idx(w, ev))

IsRange(w) == process_id[w].kind = "RangeBatchId"
IsParent(w) == process_id[w].kind = "ParentLookup"
ImportedRoots(w) == ret[w].tag = "Ok" /\ ret[w].roots > 0
Returned(w) == pc[w] \in {"report", "done"}

\* ------------------------------------------------------------------ claims

\* C1 (as stated): a worker whose Weak handle could not be upgraded calls
\* neither process_chain_segment nor fork_choice and sends no message at all,
\* whichever entry point it was given.
C1_DeadChainSilent ==
    \A w \in Workers : chain[w] = "None" => trace[w] = <<>>

\* C2: a range batch whose import returned at least one new root runs fork
\* choice exactly once, before the BatchProcessed message is sent, and that
\* message reports Success.
C2_ForkChoiceOnceBeforeReport ==
    \A w \in Workers :
        (IsRange(w) /\ ImportedRoots(w)) =>
            /\ NumCalls(w, "fork_choice") <= 1
            /\ \A i \in Idx(w, "try_send") :
                  /\ \E j \in Idx(w, "fork_choice") : j < i
                  /\ trace[w][i].arg.type = "BatchProcessed"
                  /\ trace[w][i].arg.result = Success
            /\ pc[w] = "done" =>
                  /\ NumCalls(w, "fork_choice") = 1
                  /\ NumCalls(w, "try_send") = 1

C2_Witness ==
    \E w \in Workers :
        /\ IsRange(w) /\ ImportedRoots(w) /\ pc[w] = "done"
        /\ Len(trace[w]) = 3
        /\ trace[w][2].ev = "fork_choice"
        /\ trace[w][3].ev = "try_send"
        /\ trace[w][3].arg.result = Success

\* C3: a range batch whose import returned no new root is reported Success and
\* never runs fork choice.
C3_EmptyImportNoForkChoice ==
    \A w \in Workers :
        (IsRange(w) /\ ret[w].tag = "Ok" /\ ret[w].roots = 0) =>
            /\ NumCalls(w, "fork_choice") = 0
            /\ pc[w] # "fork_choice"
            /\ \A i \in Idx(w, "try_send") :
                  /\ trace[w][i].arg.type = "BatchProcessed"
                  /\ trace[w][i].arg.result = Success
            /\ pc[w] = "done" => NumCalls(w, "try_send") = 1

C3_Witness ==
    \E w \in Workers :
        /\ IsRange(w) /\ ret[w].tag = "Ok" /\ ret[w].roots = 0
        /\ Len(downloaded_blocks[w]) > 0
        /\ pc[w] = "done"
        /\ NumCalls(w, "process_chain_segment") = 1
        /\ NumCalls(w, "try_send") = 1

\* C4: with any number of range batches in flight and any interleaving, each
\* batch makes exactly one BatchProcessed send, with Success or Failed and its
\* own batch id; while the channel is open the channel holds exactly one
\* message for every finished batch and none for the others.
BatchMsgs(id) ==
    {i \in DOMAIN chan : chan[i].type = "BatchProcessed" /\ chan[i].id = id}

C4_OneResultPerBatch ==
    \A w \in Workers :
        IsRange(w) =>
            /\ NumCalls(w, "try_send") <= 1
            /\ pc[w] = "done" => NumCalls(w, "try_send") = 1
            /\ pc[w] # "done" => NumCalls(w, "try_send") = 0
            /\ \A i \in Idx(w, "try_send") :
                  /\ trace[w][i].arg.type = "BatchProcessed"
                  /\ trace[w][i].arg.result \in {Success, Failed}
                  /\ trace[w][i].arg.id = process_id[w].id
            /\ Cardinality(BatchMsgs(process_id[w].id)) <= 1
            /\ rx_open =>
                  Cardinality(BatchMsgs(process_id[w].id))
                      = IF pc[w] = "done" THEN 1 ELSE 0

C4_Witness ==
    /\ rx_open
    /\ Len(chan) = 2
    /\ chan[1].type = "BatchProcessed" /\ chan[2].type = "BatchProcessed"
    /\ chan[1].id = 2 /\ chan[2].id = 1
    /\ chan[1].result = Failed /\ chan[2].result = Success
    /\ pc[1] = "done" /\ pc[2] = "done"

\* C5: a parent lookup calls process_chain_segment at most once (once when the
\* chain was live) and hands it the input sequence reversed: same length,
\* k-th block of the call is the k-th block from the end of the input.
C5_ParentLookupReversed ==
    \A w \in Workers :
        IsParent(w) =>
            /\ NumCalls(w, "process_chain_segment") <= 1
            /\ (Returned(w) /\ chain[w] # "None") =>
                  NumCalls(w, "process_chain_segment") = 1
            /\ \A i \in Idx(w, "process_chain_segment") :
                  LET a == trace[w][i].arg
                      d == downloaded_blocks[w]
                  IN /\ Len(a) = Len(d)
                     /\ \A k \in 1..Len(d) : a[k] = d[Len(d) + 1 - k]

C5_Witness ==
    \E w \in Workers :
        /\ IsParent(w)
        /\ downloaded_blocks[w] = <<3, 2, 1>>
        /\ \E i \in Idx(w, "process_chain_segment") :
              trace[w][i].arg = <<1, 2, 3>>

\* C6: a range batch calls process_chain_segment at most once, with the blocks
\* in the order handed to the worker; the BatchProcessed message carries the
\* batch id and the block sequence it was given, whatever the import returned.
C6_RangeBatchFrame ==
    \A w \in Workers :
        IsRange(w) =>
            /\ NumCalls(w, "process_chain_segment") <= 1
            /\ \A i \in Idx(w, "process_chain_segment") :
                  trace[w][i].arg = downloaded_blocks[w]
            /\ \A i \in Idx(w, "try_send") :
                  /\ trace[w][i].arg.id = process_id[w].id
                  /\ trace[w][i].arg.downloaded_blocks = downloaded_blocks[w]
                  /\ rx_open => chan[Len(chan)] = trace[w][i].arg

C6_Witness ==
    \E w \in Workers :
        /\ IsRange(w) /\ pc[w] = "done"
        /\ downloaded_blocks[w] = <<1, 2, 3>>
        /\ ret[w].tag = "ParentUnknown"
        /\ trace[w][1].arg = <<1, 2, 3>>
        /\ Len(chan) = 1
        /\ chan[1].downloaded_blocks = <<1, 2, 3>>
        /\ chan[1].result = Failed

\* C7: a parent lookup sends at most one message; it sends exactly one
\* ParentLookupFailed with its own peer id when process_blocks failed, nothing
\* when it succeeded, and never a BatchProcessed; a range batch never sends
\* ParentLookupFailed.
C7_ParentLookupReport ==
    \A w \in Workers :
        /\ IsParent(w) =>
              /\ NumCalls(w, "try_send") <= 1
              /\ \A i \in Idx(w, "try_send") :
                    /\ trace[w][i].arg.type = "ParentLookupFailed"
                    /\ trace[w][i].arg.id = process_id[w].id
                    /\ result[w].tag = "Err"
              /\ pc[w] = "done" =>
                    (NumCalls(w, "try_send") = 1 <=> result[w].tag = "Err")
        /\ IsRange(w) =>
              \A i \in Idx(w, "try_send") :
                  trace[w][i].arg.type # "ParentLookupFailed"

C7_Witness ==
    \E w \in Workers :
        /\ IsParent(w) /\ pc[w] = "done"
        /\ process_id[w].id = 2
        /\ result[w].tag = "Err"
        /\ chan = <<ParentLookupFailed(2)>>

C9_ClosedChannelSwallowed ==
    \A w \in Workers :
        /\ pc[w] = "report" => ENABLED report(w)
        /\ NumCalls(w, "try_send") <= 1
        /\ \A i \in Idx(w, "try_send") :
              /\ pc[w] = "done"
              /\ i = Len(trace[w])
              /\ NumCalls(w, "process_chain_segment")
                    = IF chain[w] = "None" THEN 0 ELSE 1
              /\ NumCalls(w, "fork_choice") = IF ImportedRoots(w) THEN 1 ELSE 0
              /\ trace[w][i].ret = "Err" =>
                    \A k \in DOMAIN chan : chan[k] # trace[w][i].arg

C9_Witness ==
    \E w \in Workers :
        /\ ~rx_open /\ pc[w] = "done" /\ chan = <<>>
        /\ Len(trace[w]) = 3
        /\ trace[w][1].ev = "process_chain_segment"
        /\ trace[w][2].ev = "fork_choice"
        /\ trace[w][3].ev = "try_send" /\ trace[w][3].ret = "Err"

\* C10: when fork_choice fails after an import with new roots, a range batch
\* still reports Success with its batch id and blocks, in one message, and
\* fork_choice is called once only.
C10_ForkChoiceErrorSwallowed ==
    \A w \in Workers :
        (IsRange(w) /\ \E j \in Idx(w, "fork_choice") : trace[w][j].ret = "Err")
        =>
            /\ NumCalls(w, "fork_choice") = 1
            /\ Returned(w)
            /\ result[w] = Ok
            /\ \A i \in Idx(w, "try_send") :
                  trace[w][i].arg = BatchProcessed(process_id[w].id,
                                                   downloaded_blocks[w], Success)
            /\ pc[w] = "done" => NumCalls(w, "try_send") = 1

C10_Witness ==
    \E w \in Workers :
        /\ IsRange(w) /\ pc[w] = "done"
        /\ \E j \in Idx(w, "fork_choice") : trace[w][j].ret = "Err"
        /\ Len(chan) = 1 /\ chan[1].result = Success

\* C16: when process_chain_segment returns ParentUnknown, BeaconChainError or
\* an error process_blocks does not name, process_blocks returns Err: a range
\* batch is reported Failed, a parent lookup sends ParentLookupFailed, fork
\* choice is not run and process_chain_segment is called once only.
FatalErrors == {"ParentUnknown", "BeaconChainError"} \cup OtherErrors

C16_FatalErrorsFailBatch ==
    \A w \in Workers :
        ret[w].tag \in FatalErrors =>
            /\ Returned(w)
            /\ result[w].tag = "Err"
            /\ NumCalls(w, "fork_choice") = 0
            /\ NumCalls(w, "process_chain_segment") = 1
            /\ pc[w] = "done" => NumCalls(w, "try_send") = 1
            /\ \A i \in Idx(w, "try_send") :
                  IF IsRange(w)
                  THEN /\ trace[w][i].arg.type = "BatchProcessed"
                       /\ trace[w][i].arg.result = Failed
                  ELSE trace[w][i].arg = ParentLookupFailed(process_id[w].id)

C16_Witness ==
    \E w \in Workers :
        /\ IsParent(w) /\ pc[w] = "done"
        /\ ret[w].tag = "InvalidSignature"
        /\ Len(chan) = 1 /\ chan[1].type = "ParentLookupFailed"

\* C17: when process_chain_segment returns BlockIsAlreadyKnown,
\* WouldRevertFinalizedSlot or GenesisBlock, process_blocks returns Ok: a range
\* batch is reported Success, a parent lookup sends nothing, fork choice is
\* not run and process_chain_segment is not called again.
BenignErrors == {"BlockIsAlreadyKnown", "WouldRevertFinalizedSlot",
                 "GenesisBlock"}

C17_BenignErrorsPassBatch ==
    \A w \in Workers :
        ret[w].tag \in BenignErrors =>
            /\ Returned(w)
            /\ result[w] = Ok
            /\ NumCalls(w, "fork_choice") = 0
            /\ NumCalls(w, "process_chain_segment") = 1
            /\ IsParent(w) => NumCalls(w, "try_send") = 0
            /\ (IsRange(w) /\ pc[w] = "done") => NumCalls(w, "try_send") = 1
            /\ \A i \in Idx(w, "try_send") :
                  /\ trace[w][i].arg.type = "BatchProcessed"
                  /\ trace[w][i].arg.result = Success

C17_Witness ==
    \E w \in Workers :
        /\ IsRange(w) /\ pc[w] = "done"
        /\ ret[w].tag = "BlockIsAlreadyKnown"
        /\ Len(downloaded_blocks[w]) = 3
        /\ NumCalls(w, "process_chain_segment") = 1
        /\ Len(chan) = 1 /\ chan[1].result = Success

\* C18 (as stated): on FutureSlot the batch fails in every case; the "too far
\* in the future" warning is logged exactly when block_slot exceeds
\* present_slot + FUTURE_SLOT_TOLERANCE, the "slightly ahead" message exactly
\* when block_slot is at most present_slot + FUTURE_SLOT_TOLERANCE.
Logged(w, msg) == \E i \in DOMAIN logs[w] : logs[w][i] = msg

C18_FutureSlotBranches ==
    \A w \in Workers :
        ret[w].tag = "FutureSlot" =>
            /\ result[w].tag = "Err"
            /\ Logged(w, "Block is ahead of our slot clock")
                  <=> ret[w].block_slot
                        > ret[w].present_slot + FUTURE_SLOT_TOLERANCE
            /\ Logged(w, "Block is slightly ahead of our slot clock, ignoring.")
                  <=> ret[w].block_slot
                        <= ret[w].present_slot + FUTURE_SLOT_TOLERANCE

\* C19: the chain is looked up once, at entry.  A worker that obtained its Arc
\* is never held up by the node dropping the chain: its import, its fork
\* choice when due and its report stay enabled and have all run when it is
\* done.  A worker is suppressed only if the node had dropped the chain before
\* the worker looked it up, and a suppressed worker makes no call on the chain.
Upgraded(w) == chain[w] \in {"Arc", "Dropped"}

C19_TeardownAfterUpgrade ==
    \A w \in Workers :
        /\ chain[w] = "None" =>
              /\ ~owner
              /\ NumCalls(w, "process_chain_segment") = 0
              /\ NumCalls(w, "fork_choice") = 0
        /\ Upgraded(w) =>
              /\ pc[w] = "import" => ENABLED process_blocks_import(w, ConcRets)
              /\ pc[w] = "fork_choice" => ENABLED run_fork_choice(w)
              /\ pc[w] = "report" => ENABLED report(w)
              /\ pc[w] \in {"import", "fork_choice", "report", "done"}
              /\ Returned(w) =>
                    /\ NumCalls(w, "process_chain_segment") = 1
                    /\ NumCalls(w, "fork_choice")
                          = IF ImportedRoots(w) THEN 1 ELSE 0
              /\ (pc[w] = "done" /\ IsRange(w)) => NumCalls(w, "try_send") = 1

C19_Witness ==
    \E w \in Workers, v \in Workers :
        /\ ~owner
        /\ chain[w] = "Arc" /\ pc[w] = "fork_choice"
        /\ NumCalls(w, "process_chain_segment") = 1
        /\ chain[v] = "Arc" /\ pc[v] = "import"
        /\ v # w

\* ----------------------------------------------------- codec observations
Resolves(topic) == GossipTopic_decode(topic).tag = "Ok"

\* The position of the first topic that resolves: a set of at most one index
FirstResolved(topics) ==
    {i \in DOMAIN topics :
        Resolves(topics[i]) /\ \A j \in 1..(i - 1) : ~Resolves(topics[j])}

Decoded == codec.out.tag # "None"
Encoded == codec.enc.tag # "None"
Count(seq, x) == Cardinality({i \in DOMAIN seq : seq[i] = x})

\* The object type and the message variant of each topic kind (spec.md, 3)
TypeOfKind(kind) ==
    CASE kind = "BeaconBlock" -> "BeaconBlock"
      [] kind = "BeaconAggregateAndProof" -> "AggregateAndProof"
      [] kind = "CommitteeIndex" -> "Attestation"
      [] kind = "VoluntaryExit" -> "VoluntaryExit"
      [] kind = "ProposerSlashing" -> "ProposerSlashing"
      [] kind = "AttesterSlashing" -> "AttesterSlashing"
VariantOfKind(kind) ==
    CASE kind = "BeaconBlock" -> "BeaconBlock"
      [] kind = "BeaconAggregateAndProof" -> "AggregateAndProofAttestation"
      [] kind = "CommitteeIndex" -> "Attestation"
      [] kind = "VoluntaryExit" -> "VoluntaryExit"
      [] kind = "ProposerSlashing" -> "ProposerSlashing"
      [] kind = "AttesterSlashing" -> "AttesterSlashing"

\* C11 (as stated): a message encoded with SSZ and decoded under topics that
\* include the topic of its kind (and subnet) comes back equal to itself.
\* Checked on topic lists in which no other gossip topic comes first.
C11_RoundTrip ==
    codec.pc = "delivered" =>
        codec.out.tag = "Ok" /\ codec.out.msg = codec.msg

\* C12 (as stated): encode returns, for each of the six variants, the SSZ
\* serialization of the object in the message, which is never empty.
C12_EncodeComplete ==
    Encoded =>
        /\ codec.enc.tag = "Bytes"
        /\ codec.enc.bytes = as_ssz_bytes(codec.msg.obj)
        /\ codec.enc.bytes # <<>>

\* C13: the first topic that resolves decides alone: decode looks at no topic
\* after it and returns what it returns for that topic by itself.  An unknown
\* topic and the beacon block topic, in either order, with a payload that is
\* a block, decode to BeaconBlock.
C13_FirstMatchWins ==
    Decoded =>
        /\ \A i \in FirstResolved(codec.topics) :
              LET alone == decode(<<codec.topics[i]>>, codec.data)
              IN /\ codec.out.consulted = i
                 /\ codec.out.tag = alone.tag
                 /\ codec.out.msg = alone.msg
                 /\ codec.out.err = alone.err
                 /\ codec.out.attempts = alone.attempts
        /\ \A u \in UnknownTopics :
              (/\ codec.topics \in {<<u, TopicString("beacon_block", 0)>>,
                                    <<TopicString("beacon_block", 0), u>>}
               /\ from_ssz_bytes("BeaconBlock", codec.data).tag = "Ok")
              => /\ codec.out.tag = "Ok"
                 /\ codec.out.msg.variant = "BeaconBlock"
                 /\ codec.out.msg.obj
                       = from_ssz_bytes("BeaconBlock", codec.data).obj

C13_Witness ==
    /\ codec.pc = "decoded"
    /\ codec.topics = <<TopicString("unknown", 1),
                        TopicString("beacon_block", 0)>>
    /\ codec.out.tag = "Ok"
    /\ codec.out.msg.variant = "BeaconBlock"
    /\ codec.out.consulted = 2

\* C14: when the payload does not deserialize as the type of the first topic
\* that resolves, decode fails with the decode error at that topic, whatever
\* the later topics are, and not with the unknown-topics error.
C14_DecodeFailureIsFinal ==
    Decoded =>
        \A i \in FirstResolved(codec.topics) :
            LET kind == GossipTopic_decode(codec.topics[i]).kind
            IN from_ssz_bytes(TypeOfKind(kind), codec.data).tag = "Err" =>
                  /\ codec.out.tag = "Err"
                  /\ codec.out.err = "DecodeError"
                  /\ codec.out.unknown = <<>>
                  /\ codec.out.consulted = i
                  /\ codec.out.attempts = <<TypeOfKind(kind)>>

C14_Witness ==
    /\ codec.pc = "decoded"
    /\ codec.topics = <<TopicString("beacon_block", 0),
                        TopicString("voluntary_exit", 0)>>
    /\ from_ssz_bytes("VoluntaryExit", codec.data).tag = "Ok"
    /\ codec.out.tag = "Err"
    /\ codec.out.err = "DecodeError"

\* C15: when no topic resolves (also for no topic at all) decode fails with
\* the unknown-topics error, which lists each topic as often as the input
\* holds it and nothing else, and the payload is never deserialized.
C15_UnknownTopicsListed ==
    (Decoded /\ FirstResolved(codec.topics) = {}) =>
        /\ codec.out.tag = "Err"
        /\ codec.out.err = "Unknown gossipsub topics"
        /\ codec.out.attempts = <<>>
        /\ Len(codec.out.unknown) = Len(codec.topics)
        /\ \A t \in Topics :
              Count(codec.out.unknown, t) = Count(codec.topics, t)

C15_Witness ==
    /\ codec.pc = "decoded"
    /\ codec.topics = <<TopicString("unknown", 1), TopicString("unknown", 1)>>
    /\ codec.data # <<>>
    /\ codec.out.unknown = <<TopicString("unknown", 1),
                             TopicString("unknown", 1)>>

\* C20: a message decode returns has the variant and the object type of the
\* kind of the first topic that resolved, and an Attestation carries the
\* subnet id of that very topic.
C20_VariantMatchesTopic ==
    (Decoded /\ codec.out.tag = "Ok") =>
        /\ FirstResolved(codec.topics) # {}
        /\ \A i \in FirstResolved(codec.topics) :
              LET kind == GossipTopic_decode(codec.topics[i]).kind
              IN /\ codec.out.msg.variant = VariantOfKind(kind)
                 /\ codec.out.msg.obj.type = TypeOfKind(kind)
                 /\ kind = "CommitteeIndex" =>
                       codec.out.msg.subnet = codec.topics[i].index

C20_Witness ==
    /\ codec.pc = "decoded"
    /\ codec.topics = <<TopicString("committee_index", 1),
                        TopicString("committee_index", 0)>>
    /\ codec.out.tag = "Ok"
    /\ codec.out.msg.variant = "Attestation"
    /\ codec.out.msg.subnet = 1

====
